---------------------------- MODULE Spec2Model ----------------------------
(***************************************************************************)
(* A model of app.py: a Streamlit script that is executed again from its   *)
(* first line on every rerun ("tick"), a background thread                 *)
(* (mqtt_background_worker) that owns the paho-mqtt client, and the paho   *)
(* network loop that calls _on_connect and _on_message.                    *)
(*                                                                         *)
(* Every execution of the script runs lines 39-40 again, so every run      *)
(* builds its own mqtt_queue and publish_queue.  The worker and the paho   *)
(* callbacks are functions of the run that started the thread and keep     *)
(* using the queues of that run.  Two pairs of queues can therefore be in  *)
(* use at a time: the worker's ("worker") and, when the running script is  *)
(* not the run that started the worker, the script's own ("script").       *)
(* st.session_state (logs, last, override, mqtt_connected,                 *)
(* mqtt_thread_started) and the st.cache_resource cache (model) survive    *)
(* the reruns.                                                             *)
(***************************************************************************)
EXTENDS Integers, Sequences, FiniteSets, TLC

VARIABLES
    tickpc,              \* position of the script: "idle", "drain", "ui"
    pressed,             \* the button whose click triggered the running script
    page,                \* what the last finished run left on the page:
                         \* "blank", "error" (st.error, st.stop) or "dashboard"
    notice,              \* the st.success / st.info text on that page, or ""
    drained,             \* sensor events the running script's loop has processed
    model,               \* st.cache_resource: <<>> or <<"classifier">>
    logs,                \* st.session_state.logs
    last,                \* st.session_state.last: <<>> (None) or <<row>>
    override,            \* st.session_state.override: "None", "ON", "OFF"
    mqtt_connected,      \* st.session_state.mqtt_connected
    mqtt_thread_started, \* st.session_state.mqtt_thread_started
    sameQueues,          \* the running script's queues are the worker's queues
    mqtt_queue,          \* inbound queues: mqtt_queue["worker"], mqtt_queue["script"]
    publish_queue,       \* outbound queues, likewise
    wpc,                 \* position of mqtt_background_worker: "off", "connect", "backoff", "loop"
    conn,                \* the paho client's session: "none", "awaiting", "connected", "dropped"
    subscribed,          \* TOPIC_SENSOR is subscribed on the current session
    sent,                \* payloads handed to client.publish, in order
    publish_rc,          \* what each of those calls gave: "SUCCESS" or "NO_CONN"
    clock                \* number of _on_message calls so far; utcnow() at a call

vars == <<tickpc, pressed, page, notice, drained, model, logs, last, override,
          mqtt_connected, mqtt_thread_started, sameQueues, mqtt_queue,
          publish_queue, wpc, conn, subscribed, sent, publish_rc, clock>>

scriptVars == <<tickpc, pressed, page, notice, drained, model, sameQueues>>
sessionVars == <<logs, last, override, mqtt_connected, mqtt_thread_started>>
workerVars == <<wpc, conn, subscribed, sent, publish_rc>>

---------------------------------------------------------------------------
\* Bounds of the model.
MaxClock == 2     \* messages delivered to _on_message
MaxQueue == 2     \* entries waiting in one inbound queue
LogCapacity == 1  \* the capacity the specification gives the Event Log (200), scaled down

\* The queue objects in use: the worker's, and the running script's own.
Holders == {"worker", "script"}

\* The queues the running script's names mqtt_queue and publish_queue denote.
Mine == IF sameQueues THEN "worker" ELSE "script"

---------------------------------------------------------------------------
\* Values.

TOPIC_OUTPUT == "iot/class/session5/output"

\* What model.predict([[temp, hum]])[0] can give; "ERR" is what the script
\* records when predict raises.
Labels == {"Panas", "Normal"}
Outcomes == Labels \cup {"ERR"}

\* JSON values of a payload's field: a number token, a string, null, or no such key.
JNum(s) == [t |-> "num", s |-> s]
JStr(s) == [t |-> "str", s |-> s]
JNull == [t |-> "null", s |-> ""]
JAbsent == [t |-> "absent", s |-> ""]

TempValues == {JNum("35"), JNum("NaN"), JStr("abc"), JStr("35"), JNull, JAbsent}
HumValues == {JNum("40"), JStr("abc"), JAbsent}

\* Payload bytes: not JSON at all, JSON that is not an object, or an object
\* with at most one field that is not a plain number.
Payloads ==
    {[kind |-> "garbage", temp |-> JAbsent, hum |-> JAbsent],
     [kind |-> "array", temp |-> JAbsent, hum |-> JAbsent]}
    \cup [kind : {"object"}, temp : TempValues, hum : {JNum("40")}]
    \cup [kind : {"object"}, temp : {JNum("35")}, hum : HumValues]

---------------------------------------------------------------------------
\* _on_message's conversions.

\* float(x) for x = data.get(key): None (null or a missing key) and a string
\* that is no number raise; a number token or a numeric string give the float,
\* NaN included.
FloatOf(v) ==
    CASE v.t = "num" /\ v.s = "35" -> [ok |-> TRUE, f |-> "35.0"]
      [] v.t = "num" /\ v.s = "40" -> [ok |-> TRUE, f |-> "40.0"]
      [] v.t = "num" /\ v.s = "NaN" -> [ok |-> TRUE, f |-> "nan"]
      [] v.t = "str" /\ v.s = "35" -> [ok |-> TRUE, f |-> "35.0"]
      [] OTHER -> [ok |-> FALSE, f |-> ""]

\* The try block of _on_message up to the put: the event, or nothing when a
\* line raised.
DecodeMissingHum(p, ts) ==
    IF p.kind = "object" /\ FloatOf(p.temp).ok
    THEN <<[ts |-> ts, temp |-> FloatOf(p.temp).f,
            hum |-> IF FloatOf(p.hum).ok THEN FloatOf(p.hum).f ELSE "40.0"]>>
    ELSE <<>>

Decode(p, ts) ==
    IF p.kind = "object" /\ FloatOf(p.temp).ok /\ FloatOf(p.hum).ok
    THEN <<[ts |-> ts, temp |-> FloatOf(p.temp).f, hum |-> FloatOf(p.hum).f]>>
    ELSE <<>>

SysMsg(s) == [system |-> s]
IsSystem(item) == "system" \in DOMAIN item

Pkt(payload) == [topic |-> TOPIC_OUTPUT, payload |-> payload]

---------------------------------------------------------------------------
\* The script's computations.

\* Lines 196-199, model.predict inside try/except.  The classifier is a frozen
\* function nobody has seen: a reading it has labelled before gets the same
\* label again, any other reading any outcome.  With no model object the call
\* raises.
Predictions(m, l, item) ==
    IF m = <<>> THEN {"ERR"}
    ELSE LET before == {l[i].pred : i \in {j \in 1..Len(l) :
                              l[j].temp = item.temp /\ l[j].hum = item.hum}}
         IN IF before = {} THEN Outcomes ELSE before

\* Line 201.
Row(item, pred) ==
    [ts |-> item.ts, temp |-> item.temp, hum |-> item.hum, pred |-> pred]

\* Lines 206-208: the automatic message for a prediction.
AutoMessagesIgnoringOverride(ov, pred) ==
    <<Pkt(IF pred = "Panas" THEN "ALERT_ON" ELSE "ALERT_OFF")>>

AutoMessagesSwapped(ov, pred) ==
    IF ov = "None"
    THEN <<Pkt(IF pred = "Panas" THEN "ALERT_OFF" ELSE "ALERT_ON")>>
    ELSE <<>>

AutoMessagesSkippingErr(ov, pred) ==
    IF ov = "None" /\ pred # "ERR"
    THEN <<Pkt(IF pred = "Panas" THEN "ALERT_ON" ELSE "ALERT_OFF")>>
    ELSE <<>>

AutoMessages(ov, pred) ==
    IF ov = "None"
    THEN <<Pkt(IF pred = "Panas" THEN "ALERT_ON" ELSE "ALERT_OFF")>>
    ELSE <<>>

\* Line 202: logs.append(row).
LogAppendEvicting(l, row) ==
    IF Len(l) >= LogCapacity THEN Append(Tail(l), row) ELSE Append(l, row)

LogAppendRelabelling(l, row) ==
    Append([i \in 1..Len(l) |-> [l[i] EXCEPT !.pred = row.pred]], row)

LogAppend(l, row) == Append(l, row)

\* Line 184: mqtt_queue.get() takes the oldest entry.
QueueGetNewest(q) == [item |-> q[Len(q)], rest |-> SubSeq(q, 1, Len(q) - 1)]

QueueGet(q) == [item |-> Head(q), rest |-> Tail(q)]

\* Lines 63-67: where the script goes after load_model.
PcAfterLoadNoStop(m) == "drain"

PcAfterLoad(m) == IF m = <<>> THEN "idle" ELSE "drain"

\* Line 255: the chart shows df.tail(200).
ChartRows == 200

ChartView(l) == IF Len(l) <= ChartRows THEN l ELSE SubSeq(l, Len(l) - ChartRows + 1, Len(l))

---------------------------------------------------------------------------
Init ==
    /\ tickpc = "idle"
    /\ pressed = "NONE"
    /\ page = "blank"
    /\ notice = ""
    /\ drained = 0
    /\ model = <<>>
    /\ logs = <<>>
    /\ last = <<>>
    /\ override = "None"
    /\ mqtt_connected = FALSE
    /\ mqtt_thread_started = FALSE
    /\ sameQueues = FALSE
    /\ mqtt_queue = [h \in Holders |-> <<>>]
    /\ publish_queue = [h \in Holders |-> <<>>]
    /\ wpc = "off"
    /\ conn = "none"
    /\ subscribed = FALSE
    /\ sent = <<>>
    /\ publish_rc = <<>>
    /\ clock = 0

---------------------------------------------------------------------------
\* The script (main thread).

Buttons == {"NONE", "ON", "OFF", "CLEAR"}

\* What load_model can return when nothing is cached: it raises (<<>>), or it
\* gives the classifier.
Loadable == {<<>>, <<"classifier">>}

\* Lines 39-40: the script's names are bound to new, empty queues; the queues
\* of the run before are gone unless the worker holds them.
Fresh(queues) == [queues EXCEPT !["script"] = <<>>]

\* Line 174: a script that got past load_model starts the thread unless the
\* session's flag says it was started.
StartsThreadAlways(pc, started) == pc # "idle"

StartsThread(pc, started) == pc # "idle" /\ ~started

\* Lines 9-178: one execution of the script from its first line to the drain
\* loop.  New queues (39-40), session defaults only where missing (45-54),
\* load_model with st.error and st.stop() on failure (59-67), thread start
\* once (174-178): the thread's functions use the queues of this run.
\* A button can have been clicked only if the run before drew it.
TickStart(btn, loaded) ==
    /\ tickpc = "idle"
    /\ btn # "NONE" => page = "dashboard"
    /\ LET m == IF model # <<>> THEN model ELSE loaded
           pc == PcAfterLoad(m)
           start == StartsThread(pc, mqtt_thread_started)
       IN /\ mqtt_queue' = Fresh(mqtt_queue)
          /\ publish_queue' = Fresh(publish_queue)
          /\ model' = m
          /\ tickpc' = pc
          /\ pressed' = IF pc = "idle" THEN "NONE" ELSE btn
          /\ page' = IF pc = "idle" THEN "error" ELSE page
          /\ notice' = IF pc = "idle" THEN "" ELSE notice
          /\ drained' = 0
          /\ mqtt_thread_started' = (mqtt_thread_started \/ start)
          /\ sameQueues' = start
          /\ wpc' = IF start THEN "connect" ELSE wpc
          /\ UNCHANGED <<logs, last, override, mqtt_connected, conn, subscribed,
                         sent, publish_rc, clock>>

\* Lines 183-208: one iteration of the drain loop.
DrainStep ==
    /\ tickpc = "drain"
    /\ mqtt_queue[Mine] # <<>>
    /\ LET got == QueueGet(mqtt_queue[Mine])
           item == got.item
       IN /\ mqtt_queue' = [mqtt_queue EXCEPT ![Mine] = got.rest]
          /\ IF IsSystem(item)
             THEN /\ mqtt_connected' = (item.system = "connected")
                  /\ UNCHANGED <<logs, last, publish_queue, drained>>
             ELSE \E pred \in Predictions(model, logs, item) :
                     /\ logs' = LogAppend(logs, Row(item, pred))
                     /\ last' = <<Row(item, pred)>>
                     /\ publish_queue' =
                            [publish_queue EXCEPT
                               ![Mine] = @ \o AutoMessages(override, pred)]
                     /\ drained' = drained + 1
                     /\ UNCHANGED mqtt_connected
    /\ UNCHANGED <<tickpc, pressed, page, notice, model, sameQueues, override,
                   mqtt_thread_started, workerVars, clock>>

\* Line 183: the loop condition finds the queue empty.
DrainExit ==
    /\ tickpc = "drain"
    /\ mqtt_queue[Mine] = <<>>
    /\ tickpc' = "ui"
    /\ UNCHANGED <<pressed, page, notice, drained, model, sameQueues, sessionVars,
                   mqtt_queue, publish_queue, workerVars, clock>>

\* The end of the script: the page is drawn with the notice text, the click
\* is consumed.
ScriptEnd(text) ==
    /\ tickpc' = "idle"
    /\ notice' = text
    /\ pressed' = "NONE"
    /\ page' = "dashboard"
    /\ drained' = 0
    /\ UNCHANGED <<model, sameQueues, logs, last, mqtt_connected,
                   mqtt_thread_started, mqtt_queue, workerVars, clock>>

\* Lines 224-228.
ForceOnNoPublish ==
    /\ tickpc = "ui" /\ pressed = "ON"
    /\ override' = "ON"
    /\ UNCHANGED publish_queue
    /\ ScriptEnd("Enqueued ALERT_ON")

ForceOn ==
    /\ tickpc = "ui" /\ pressed = "ON"
    /\ override' = "ON"
    /\ publish_queue' = [publish_queue EXCEPT ![Mine] = Append(@, Pkt("ALERT_ON"))]
    /\ ScriptEnd("Enqueued ALERT_ON")

\* Lines 229-232.
ForceOff ==
    /\ tickpc = "ui" /\ pressed = "OFF"
    /\ override' = "OFF"
    /\ publish_queue' = [publish_queue EXCEPT ![Mine] = Append(@, Pkt("ALERT_OFF"))]
    /\ ScriptEnd("Enqueued ALERT_OFF")

\* Lines 233-235.
ClearOverridePublishing ==
    /\ tickpc = "ui" /\ pressed = "CLEAR"
    /\ override' = "None"
    /\ publish_queue' = [publish_queue EXCEPT ![Mine] = Append(@, Pkt("ALERT_OFF"))]
    /\ ScriptEnd("Auto alerts resumed")

ClearOverride ==
    /\ tickpc = "ui" /\ pressed = "CLEAR"
    /\ override' = "None"
    /\ UNCHANGED publish_queue
    /\ ScriptEnd("Auto alerts resumed")

\* Lines 213-275 with no button clicked.
NoButton ==
    /\ tickpc = "ui" /\ pressed = "NONE"
    /\ UNCHANGED <<override, publish_queue>>
    /\ ScriptEnd("")

---------------------------------------------------------------------------
\* The network context: mqtt_background_worker and the paho callbacks, all
\* using the worker's queues.

Put(h, item) == mqtt_queue' = [mqtt_queue EXCEPT ![h] = Append(@, item)]
Room(h) == Len(mqtt_queue[h]) < MaxQueue

\* Lines 111-142: client.connect returns; loop_start starts the paho loop.
ConnectOk ==
    /\ wpc = "connect"
    /\ wpc' = "loop"
    /\ conn' = "awaiting"
    /\ UNCHANGED <<scriptVars, sessionVars, mqtt_queue, publish_queue,
                   subscribed, sent, publish_rc, clock>>

\* Lines 139, 164-169: client.connect raises; the handler signals disconnected.
ConnectFail ==
    /\ wpc = "connect"
    /\ Room("worker")
    /\ Put("worker", SysMsg("disconnected"))
    /\ wpc' = "backoff"
    /\ UNCHANGED <<scriptVars, sessionVars, publish_queue, conn, subscribed,
                   sent, publish_rc, clock>>

\* Lines 170-171: time.sleep(3); continue.
BackoffGivesUp ==
    /\ wpc = "backoff"
    /\ wpc' = "off"
    /\ UNCHANGED <<scriptVars, sessionVars, mqtt_queue, publish_queue, conn,
                   subscribed, sent, publish_rc, clock>>

Backoff ==
    /\ wpc = "backoff"
    /\ wpc' = "connect"
    /\ UNCHANGED <<scriptVars, sessionVars, mqtt_queue, publish_queue, conn,
                   subscribed, sent, publish_rc, clock>>

\* Lines 72-82: _on_connect with the broker's answer rc.
OnConnectNoSubscribe(rc) ==
    /\ conn = "awaiting"
    /\ Room("worker")
    /\ IF rc = 0
       THEN /\ Put("worker", SysMsg("connected"))
            /\ conn' = "connected"
       ELSE /\ Put("worker", SysMsg("disconnected"))
            /\ conn' = "dropped"
    /\ subscribed' = FALSE
    /\ UNCHANGED <<scriptVars, sessionVars, publish_queue, wpc, sent,
                   publish_rc, clock>>

OnConnectSettingFlag(rc) ==
    /\ conn = "awaiting"
    /\ Room("worker")
    /\ IF rc = 0
       THEN /\ Put("worker", SysMsg("connected"))
            /\ subscribed' = TRUE
            /\ conn' = "connected"
       ELSE /\ Put("worker", SysMsg("disconnected"))
            /\ subscribed' = FALSE
            /\ conn' = "dropped"
    /\ mqtt_connected' = (rc = 0)
    /\ UNCHANGED <<scriptVars, logs, last, override, mqtt_thread_started,
                   publish_queue, wpc, sent, publish_rc, clock>>

OnConnect(rc) ==
    /\ conn = "awaiting"
    /\ Room("worker")
    /\ IF rc = 0
       THEN /\ Put("worker", SysMsg("connected"))
            /\ subscribed' = TRUE
            /\ conn' = "connected"
       ELSE /\ Put("worker", SysMsg("disconnected"))
            /\ subscribed' = FALSE
            /\ conn' = "dropped"
    /\ UNCHANGED <<scriptVars, sessionVars, publish_queue, wpc, sent,
                   publish_rc, clock>>

\* The connection is lost.  No on_disconnect callback is set (lines 135-136)
\* and nothing in the publish loop raises (lines 145-163), so no code of the
\* program runs.
Drop ==
    /\ conn = "connected"
    /\ conn' = "dropped"
    /\ subscribed' = FALSE
    /\ UNCHANGED <<scriptVars, sessionVars, mqtt_queue, publish_queue, wpc,
                   sent, publish_rc, clock>>

\* Line 142: the loop started by loop_start connects again by itself.
Reconnect ==
    /\ conn = "dropped"
    /\ conn' = "awaiting"
    /\ UNCHANGED <<scriptVars, sessionVars, mqtt_queue, publish_queue, wpc,
                   subscribed, sent, publish_rc, clock>>

\* Lines 84-94 on payload p, putting on the inbound queue h.
Deliver(h, p) ==
    /\ clock < MaxClock
    /\ Room(h)
    /\ clock' = clock + 1
    /\ mqtt_queue' = [mqtt_queue EXCEPT ![h] = @ \o Decode(p, clock + 1)]
    /\ UNCHANGED <<scriptVars, sessionVars, publish_queue, workerVars>>

\* _on_message, called by the paho loop for a message on the subscribed topic.
OnMessage(p) ==
    /\ conn = "connected"
    /\ subscribed
    /\ Deliver("worker", p)

\* Line 158: client.publish with qos 0 sends on a session that is up and
\* gives an error (or raises, lines 159-161) on one that is not.
PublishRc(c) == IF c = "connected" THEN "SUCCESS" ELSE "NO_CONN"

\* Lines 145-163: one turn of the publish loop that finds a message.
PublishStepRetrying ==
    /\ wpc = "loop"
    /\ publish_queue["worker"] # <<>>
    /\ Len(sent) < MaxClock + 1
    /\ sent' = Append(sent, Head(publish_queue["worker"]).payload)
    /\ publish_rc' = Append(publish_rc, PublishRc(conn))
    /\ publish_queue' = IF PublishRc(conn) = "SUCCESS"
                        THEN [publish_queue EXCEPT !["worker"] = Tail(@)]
                        ELSE publish_queue
    /\ UNCHANGED <<scriptVars, sessionVars, mqtt_queue, wpc, conn, subscribed,
                   clock>>

PublishStep ==
    /\ wpc = "loop"
    /\ publish_queue["worker"] # <<>>
    /\ sent' = Append(sent, Head(publish_queue["worker"]).payload)
    /\ publish_rc' = Append(publish_rc, PublishRc(conn))
    /\ publish_queue' = [publish_queue EXCEPT !["worker"] = Tail(@)]
    /\ UNCHANGED <<scriptVars, sessionVars, mqtt_queue, wpc, conn, subscribed,
                   clock>>

---------------------------------------------------------------------------
Next ==
    \/ \E btn \in Buttons, loaded \in Loadable : TickStart(btn, loaded)
    \/ DrainStep
    \/ DrainExit
    \/ ForceOn
    \/ ForceOff
    \/ ClearOverride
    \/ NoButton
    \/ ConnectOk
    \/ ConnectFail
    \/ Backoff
    \/ \E rc \in {0, 5} : OnConnect(rc)
    \/ Drop
    \/ Reconnect
    \/ \E p \in Payloads : OnMessage(p)
    \/ PublishStep

Spec == Init /\ [][Next]_vars

\* The threads keep running: a script that has started goes on to its end,
\* and the worker thread goes on with its loop.  Nothing makes the user click
\* or the network deliver.
ScriptStep == DrainStep \/ DrainExit \/ ForceOn \/ ForceOff \/ ClearOverride \/ NoButton
WorkerStep == ConnectOk \/ ConnectFail \/ Backoff \/ PublishStep

FairSpec == Spec /\ WF_vars(ScriptStep) /\ WF_vars(WorkerStep)

\* The script alone, driven the way the specification's testable properties
\* drive it: an event is put, through _on_message's decoding, on the queue
\* the running script drains.  The worker thread, once started, is not
\* scheduled.
Feed(p) ==
    /\ tickpc = "drain"
    /\ Deliver(Mine, p)

TickNext ==
    \/ \E btn \in Buttons, loaded \in Loadable : TickStart(btn, loaded)
    \/ DrainStep
    \/ DrainExit
    \/ ForceOn
    \/ ForceOff
    \/ ClearOverride
    \/ NoButton
    \/ \E p \in Payloads : Feed(p)

TickSpec == Init /\ [][TickNext]_vars

\* The program on a quiet topic with nobody clicking: the script reruns and
\* drains the connection signals, the worker connects, fails, backs off and
\* connects, the session comes up, drops and comes back.  Both threads keep
\* running.
QuietNext ==
    \/ \E loaded \in Loadable : TickStart("NONE", loaded)
    \/ DrainStep
    \/ DrainExit
    \/ NoButton
    \/ ConnectOk
    \/ ConnectFail
    \/ Backoff
    \/ \E rc \in {0, 5} : OnConnect(rc)
    \/ Drop
    \/ Reconnect

QuietSpec ==
    /\ Init /\ [][QuietNext]_vars
    /\ WF_vars(DrainStep \/ DrainExit \/ NoButton)
    /\ WF_vars(ConnectOk \/ ConnectFail \/ Backoff)


---------------------------------------------------------------------------
\* Helpers of the properties.

PayloadsOf(q) == [i \in 1..Len(q) |-> q[i].payload]
SensorItems(q) == SelectSeq(q, LAMBDA item : ~IsSystem(item))
SystemItems(q) == SelectSeq(q, LAMBDA item : IsSystem(item))
Stamps(q) == [i \in 1..Len(q) |-> q[i].ts]
Increasing(q) == \A i \in 1..Len(q) - 1 : q[i] < q[i + 1]
AutoPayload(pred) == IF pred = "Panas" THEN "ALERT_ON" ELSE "ALERT_OFF"

\* The script's last step, with the button b clicked.
ButtonStep(b) == tickpc = "ui" /\ tickpc' = "idle" /\ pressed = b

\* Payloads that are not valid JSON, are no JSON object, lack temp or hum, or
\* carry a temp or hum that is no number.
Malformed ==
    {p \in Payloads : \/ p.kind # "object"
                      \/ p.temp \in {JAbsent, JNull, JStr("abc")}
                      \/ p.hum \in {JAbsent, JNull, JStr("abc")}}

---------------------------------------------------------------------------
\* C1 (TickSpec). Override suppression: while an override is set, no step
\* taken during a tick's drain makes an outbound queue longer, whatever
\* readings the drain classifies and logs.
C1_OverrideSuppression ==
    [][(override # "None" /\ tickpc = "drain") =>
          \A h \in Holders : Len(publish_queue'[h]) <= Len(publish_queue[h])]_vars

\* An override is set and the running tick has classified two readings without
\* enqueueing a message.
C1_Witness ==
    /\ override # "None"
    /\ tickpc = "ui"
    /\ drained = 2
    /\ publish_queue[Mine] = <<>>

\* C2 (Spec). Each click on Force ALERT ON / Force ALERT OFF sets the override
\* and appends exactly one message, the matching one, to the script's outbound
\* queue in that same step, whatever the inbound queues hold; and the override
\* is set by no other step.
C2_SetOverrideEmitsOnce ==
    [][/\ \A b \in {"ON", "OFF"} :
            ButtonStep(b) =>
                /\ override' = b
                /\ publish_queue' =
                       [publish_queue EXCEPT ![Mine] = Append(@, Pkt("ALERT_" \o b))]
       /\ (override' # override /\ override' # "None") => ButtonStep(override')
      ]_vars

\* Force ALERT ON has just acted while a reading waits undrained in the
\* worker's inbound queue: exactly the one ALERT_ON is on the outbound queue.
C2_Witness ==
    /\ tickpc = "idle"
    /\ notice = "Enqueued ALERT_ON"
    /\ override = "ON"
    /\ publish_queue[Mine] = <<Pkt("ALERT_ON")>>
    /\ SensorItems(mqtt_queue["worker"]) # <<>>

C4_AutoDecision ==
    [][/\ drained' = drained + 1 =>
            /\ Len(logs') = Len(logs) + 1
            /\ SensorItems(mqtt_queue'[Mine]) = Tail(SensorItems(mqtt_queue[Mine]))
       /\ (Len(logs') > Len(logs) /\ override = "None") =>
            /\ drained' = drained + 1
            /\ publish_queue' =
                   [publish_queue EXCEPT
                      ![Mine] = Append(@, Pkt(AutoPayload(logs'[Len(logs')].pred)))]
      ]_vars

\* One tick has drained a reading labelled Panas and one that is not; the
\* messages issued are ALERT_ON, ALERT_OFF.
C4_Witness ==
    /\ override = "None"
    /\ drained = 2
    /\ Len(logs) = 2
    /\ logs[1].pred = "Panas"
    /\ logs[2].pred # "Panas"
    /\ sent \o PayloadsOf(publish_queue["worker"]) = <<"ALERT_ON", "ALERT_OFF">>

\* C5 (Spec). Malformed drop: _on_message on a malformed payload changes no
\* queue, no log and nothing published.
C5_MalformedDrop ==
    [][\A p \in Malformed :
          OnMessage(p) => UNCHANGED <<mqtt_queue, publish_queue, logs, last, sent>>
      ]_vars

\* The first delivery left no trace (no event stamped 1 anywhere) and the
\* second, well-formed, was logged and answered.
C5_Witness ==
    /\ clock = 2
    /\ Len(logs) = 1
    /\ logs[1].ts = 2
    /\ SensorItems(mqtt_queue["worker"]) = <<>>
    /\ Len(sent) + Len(publish_queue["worker"]) = 1

\* C6 (Spec). Ordering: the log entries, followed by the sensor events still
\* waiting in the worker's inbound queue, are in the order _on_message enqueued
\* them (their stamps increase); and the automatic messages, published or
\* waiting, are those of the log entries in the same order.
C6_Ordering ==
    /\ Increasing(Stamps(logs) \o Stamps(SensorItems(mqtt_queue["worker"])))
    /\ sent \o PayloadsOf(publish_queue["worker"])
           = [i \in 1..Len(logs) |-> AutoPayload(logs[i].pred)]

\* Two events have been logged in the order they arrived, and the drain is
\* still running with a further entry (a connection signal) waiting.
C6_Witness ==
    /\ Len(logs) = 2
    /\ logs[1].ts < logs[2].ts
    /\ tickpc = "drain"
    /\ mqtt_queue[Mine] # <<>>

\* C7 as claimed (Spec). Reconnect: between two "connected" signals the
\* pipeline is given a "disconnected" one.
C7_DropSignalled ==
    LET sys == SystemItems(mqtt_queue["worker"])
    IN \A i \in 1..Len(sys) - 1 :
          ~(sys[i].system = "connected" /\ sys[i + 1].system = "connected")

\* C8 (Spec). As long as no classifier is loaded, the worker is not started and
\* nothing is drained, logged or published.
C8_NoModelNoPipeline ==
    model = <<>> =>
        /\ ~mqtt_thread_started
        /\ wpc = "off"
        /\ conn = "none"
        /\ tickpc = "idle"
        /\ drained = 0
        /\ logs = <<>>
        /\ sent = <<>>
        /\ \A h \in Holders : mqtt_queue[h] = <<>> /\ publish_queue[h] = <<>>

\* A run has failed to load the classifier and stopped on the error page.
C8_Witness ==
    /\ page = "error"
    /\ model = <<>>
    /\ tickpc = "idle"

\* C9 as claimed (FairSpec). A drain that has started ends.
C9_DrainTerminates == (tickpc = "drain") ~> (tickpc = "ui")

\* C10 (TickSpec). Clear Override sets the override to Auto and changes no
\* outbound queue and no log; and with the override Auto a step that logs a
\* reading appends one message to the script's outbound queue.
C10_ClearOverride ==
    [][/\ ButtonStep("CLEAR") =>
            /\ override' = "None"
            /\ UNCHANGED <<publish_queue, logs, last, sent>>
       /\ (override = "None" /\ Len(logs') > Len(logs)) =>
            Len(publish_queue'[Mine]) = Len(publish_queue[Mine]) + 1
      ]_vars

\* The run before was a click on Clear Override; this run has drained one
\* reading and enqueued its automatic message.
C10_Witness ==
    /\ notice = "Auto alerts resumed"
    /\ override = "None"
    /\ tickpc = "ui"
    /\ drained = 1
    /\ Len(publish_queue[Mine]) = 1

\* C11 (QuietSpec). A failed connect is never fatal: the worker leaves a connect
\* attempt only into the publish loop or, having put a "disconnected" signal
\* on its inbound queue, into the backoff; it leaves the backoff only to
\* attempt connect again, and that it does; once started it never stops.  And
\* if connect keeps being able to succeed until it does, an attempt leads to
\* the publish loop.
C11_ConnectRetry ==
    /\ [][/\ (wpc = "connect" /\ wpc' # "connect") =>
               \/ wpc' = "loop"
               \/ /\ wpc' = "backoff"
                  /\ mqtt_queue'["worker"] =
                         Append(mqtt_queue["worker"], SysMsg("disconnected"))
          /\ (wpc = "backoff" /\ wpc' # "backoff") => wpc' = "connect"
          /\ wpc # "off" => wpc' # "off"
         ]_vars
    /\ (wpc = "backoff") ~> (wpc = "connect")
    /\ SF_vars(ConnectOk) => ((wpc = "connect") ~> (wpc = "loop"))

\* Two connect attempts in a row have failed, each was signalled, and the
\* worker is attempting connect a third time.
C11_Witness ==
    /\ wpc = "connect"
    /\ mqtt_queue["worker"] = <<SysMsg("disconnected"), SysMsg("disconnected")>>

\* C12 (Spec). Whenever the client's session is up (Connected), the sensor
\* topic is subscribed on that session: a session that comes up, for the first
\* time or again after a drop, comes up with the subscription issued.
C12_SubscribedWhenConnected == conn = "connected" => subscribed

\* The session has come up a second time (two "connected" signals wait in the
\* worker's inbound queue) and the topic is subscribed on it.
C12_Witness ==
    /\ conn = "connected"
    /\ subscribed
    /\ SystemItems(mqtt_queue["worker"]) = <<SysMsg("connected"), SysMsg("connected")>>

\* C13 as claimed (Spec). The decoder accepts finite numbers only: no inbound
\* event and no log entry carries a temperature or humidity that is NaN.
C13_FiniteOnly ==
    /\ \A h \in Holders : \A i \in 1..Len(mqtt_queue[h]) :
          ~IsSystem(mqtt_queue[h][i]) =>
              mqtt_queue[h][i].temp # "nan" /\ mqtt_queue[h][i].hum # "nan"
    /\ \A i \in 1..Len(logs) : logs[i].temp # "nan" /\ logs[i].hum # "nan"

\* C14 as claimed (Spec). The queues are built once: the inbound queue a
\* running tick drains and the outbound queue it fills are the ones the worker
\* puts on and takes from, on the first tick and on every tick after it.
C14_SharedInstances == (tickpc # "idle" /\ mqtt_thread_started) => Mine = "worker"

C16_FailedPublishDropped ==
    [][/\ (Len(publish_rc') > Len(publish_rc) /\ publish_rc'[Len(publish_rc')] = "NO_CONN") =>
            /\ publish_queue'["worker"] = Tail(publish_queue["worker"])
            /\ publish_queue'["script"] = publish_queue["script"]
            /\ sent' = Append(sent, Head(publish_queue["worker"]).payload)
            /\ wpc' = "loop"
       /\ wpc = "loop" => wpc' = "loop"
      ]_vars

\* The first message's publish failed, the message enqueued after it was
\* published, and nothing is left on the worker's outbound queue.
C16_Witness ==
    /\ publish_rc = <<"NO_CONN", "SUCCESS">>
    /\ publish_queue["worker"] = <<>>
    /\ wpc = "loop"

\* C17 (Spec). A classifier failure does not abort the tick: the step in which
\* predict raises logs the event with the label ERR, enqueues ALERT_OFF for it
\* when the override is Auto, takes just that event off the inbound queue and
\* leaves the script in its drain loop, which goes on with the events that
\* remain.
C17_ClassifierFailure ==
    [][(Len(logs') > Len(logs) /\ logs'[Len(logs')].pred = "ERR") =>
          /\ tickpc' = "drain"
          /\ drained' = drained + 1
          /\ mqtt_queue'[Mine] = Tail(mqtt_queue[Mine])
          /\ override = "None" =>
                publish_queue' =
                    [publish_queue EXCEPT ![Mine] = Append(@, Pkt("ALERT_OFF"))]
      ]_vars

\* In one tick, in Auto mode, predict raised for the first event and gave a
\* label for the second: both are logged and ALERT_OFF was issued for the
\* first.
C17_Witness ==
    /\ override = "None"
    /\ drained = 2
    /\ Len(logs) = 2
    /\ logs[1].pred = "ERR"
    /\ logs[2].pred \in Labels
    /\ Len(sent \o PayloadsOf(publish_queue["worker"])) = 2
    /\ (sent \o PayloadsOf(publish_queue["worker"]))[1] = "ALERT_OFF"

\* C18 (Spec). The log changes only by a drain step that takes a sensor event
\* off the script's inbound queue, and then by exactly one new entry at the
\* end: the event's stamp, temperature and humidity with the label predict
\* gives for that temperature and humidity.  Every other step, and that step
\* for the entries already there, leaves the log as it is; so the label of an
\* entry is a function of its own reading.
C18_LogEntryOwnLabel ==
    /\ [][\/ logs' = logs
          \/ /\ tickpc = "drain"
             /\ mqtt_queue[Mine] # <<>>
             /\ ~IsSystem(Head(mqtt_queue[Mine]))
             /\ mqtt_queue'[Mine] = Tail(mqtt_queue[Mine])
             /\ \E pred \in Predictions(model, logs, Head(mqtt_queue[Mine])) :
                    logs' = Append(logs, Row(Head(mqtt_queue[Mine]), pred))
         ]_vars
    /\ [](\A i, j \in 1..Len(logs) :
             (logs[i].temp = logs[j].temp /\ logs[i].hum = logs[j].hum) =>
                 logs[i].pred = logs[j].pred)

\* Two events with the same reading were logged with the same label, and a
\* later tick, a click on Force ALERT ON, has run since.
C18_Witness ==
    /\ Len(logs) = 2
    /\ logs[1].ts # logs[2].ts
    /\ logs[1].temp = logs[2].temp
    /\ logs[1].hum = logs[2].hum
    /\ logs[1].pred = logs[2].pred
    /\ override = "ON"
    /\ tickpc = "idle"

\* C19 as claimed (Spec). Every message the script puts on an outbound queue
\* is handed to publish exactly once, in order: with the worker in its publish
\* loop, a step either keeps what an outbound queue holds, adding at its end,
\* or is the worker taking the oldest message off its queue and handing that
\* message to publish.
C19_NoMessageLost ==
    [][wpc = "loop" =>
          \A h \in Holders :
             \/ /\ Len(publish_queue'[h]) >= Len(publish_queue[h])
                /\ SubSeq(publish_queue'[h], 1, Len(publish_queue[h])) = publish_queue[h]
             \/ /\ h = "worker"
                /\ publish_queue[h] # <<>>
                /\ publish_queue'[h] = Tail(publish_queue[h])
                /\ sent' = Append(sent, Head(publish_queue[h]).payload)
      ]_vars

\* C20 (Spec). At most one worker is ever started: a tick that gets past the
\* model load starts the worker if the session has started none, and otherwise
\* leaves the worker, its client and its session as they are; the worker
\* begins nowhere else, and the session's flag, once set, stays set and tells
\* whether a worker runs.
C20_SingleWorker ==
    /\ [][/\ (tickpc = "idle" /\ tickpc' # "idle") =>
               IF mqtt_thread_started
               THEN UNCHANGED <<workerVars, mqtt_thread_started>>
               ELSE wpc = "off" /\ wpc' = "connect" /\ mqtt_thread_started'
          /\ (wpc' = "connect" /\ wpc \notin {"connect", "backoff"}) =>
               (wpc = "off" /\ tickpc = "idle" /\ ~mqtt_thread_started)
          /\ mqtt_thread_started => mqtt_thread_started'
         ]_vars
    /\ [](mqtt_thread_started <=> wpc # "off")

\* A tick after the one that started the worker is running: it started
\* nothing, and the first tick's worker is in its publish loop with its
\* session up.
C20_Witness ==
    /\ tickpc = "ui"
    /\ ~sameQueues
    /\ mqtt_thread_started
    /\ wpc = "loop"
    /\ conn = "connected"

=============================================================================
